---- MODULE Spec2Model ----
(***************************************************************************)
(* A model of src/Source/darwinFinderBase.ts: DarwinFinderBase (the        *)
(* memoized findAll, the findWhere fast path, the launch-services scan     *)
(* and createPriorities) and DarwinFirefoxBrowserFinder.                   *)
(*                                                                         *)
(* Strings.  A string is a sequence of symbols.  A symbol is either one    *)
(* character that the code or the RegExp syntax treats specially           *)
(* ("/", " ", "\n", ".", "(", ")", "*", "^", "\\") or a chunk: a run of    *)
(* characters none of which is special ("Applications", "Firefox",         *)
(* "Contents/MacOS/firefox" is the one chunk that keeps inner slashes, it  *)
(* only ever occurs whole).  Every string of the model is written in this  *)
(* one tokenisation, so equality, prefix and substring on symbol           *)
(* sequences are those of the character strings.                           *)
(***************************************************************************)
EXTENDS Integers, Sequences, FiniteSets, TLC

(***************************************************************************)
(* Optional values (string | undefined): the empty set is undefined.       *)
(***************************************************************************)
Undefined == {}

Some(x) == {x}

The(o) == CHOOSE x \in o : TRUE

\* JavaScript truthiness of a string | undefined value: "" and undefined are falsy.
Truthy(o) == o # Undefined /\ The(o) # <<>>

Max(S) == CHOOSE x \in S : \A y \in S : y <= x

Min(S) == CHOOSE x \in S : \A y \in S : x <= y

RECURSIVE Flatten(_)
Flatten(ss) == IF ss = <<>> THEN <<>> ELSE Head(ss) \o Flatten(Tail(ss))

\* s occurs in t as a contiguous run of symbols (String.prototype.includes).
Contains(t, s) ==
    \E p \in 1..(Len(t) + 1) :
        p + Len(s) - 1 <= Len(t) /\ SubSeq(t, p, p + Len(s) - 1) = s

StartsWith(t, s) == Len(s) <= Len(t) /\ SubSeq(t, 1, Len(s)) = s

(***************************************************************************)
(* JavaScript RegExp, the subset the file uses.  A compiled pattern is a   *)
(* sequence of items; an item matches from a set of start positions to a   *)
(* set of end positions.                                                   *)
(***************************************************************************)
Lit(c) == [t |-> "lit", c |-> c, sub |-> <<>>]

AnyChar == [t |-> "any", c |-> "", sub |-> <<>>]

Bol == [t |-> "bol", c |-> "", sub |-> <<>>]

Group(items) == [t |-> "group", c |-> "", sub |-> items]

Star(item) == [t |-> "star", c |-> "", sub |-> <<item>>]

\* A character class whose characters are the one-character symbols of set cs.
Class(cs) == [t |-> "class", c |-> cs, sub |-> <<>>]

ParseFail == [ok |-> FALSE, items |-> <<>>, next |-> 0]

\* new RegExp(src), read left to right from position i; acc holds the items of
\* the enclosing group read so far.  Stops at the end or at a ")".
RECURSIVE ParseSeq(_, _, _)
ParseSeq(src, i, acc) ==
    IF i > Len(src) \/ src[i] = ")"
    THEN [ok |-> TRUE, items |-> acc, next |-> i]
    ELSE LET c == src[i] IN
         CASE c = "(" ->
                LET inner == ParseSeq(src, i + 1, <<>>) IN
                IF ~inner.ok \/ inner.next > Len(src)
                THEN ParseFail    \* "Unterminated group"
                ELSE ParseSeq(src, inner.next + 1, Append(acc, Group(inner.items)))
           [] c = "*" ->
                IF acc = <<>> \/ acc[Len(acc)].t \in {"star", "bol"}
                THEN ParseFail    \* "Nothing to repeat"
                ELSE ParseSeq(src, i + 1,
                              Append(SubSeq(acc, 1, Len(acc) - 1), Star(acc[Len(acc)])))
           [] c = "\\" ->
                IF i = Len(src)
                THEN ParseFail    \* "\ at end of pattern"
                ELSE ParseSeq(src, i + 2, Append(acc, Lit(src[i + 1])))
           [] c = "." -> ParseSeq(src, i + 1, Append(acc, AnyChar))
           [] c = "^" -> ParseSeq(src, i + 1, Append(acc, Bol))
           [] OTHER -> ParseSeq(src, i + 1, Append(acc, Lit(c)))

\* new RegExp(src): [ok |-> FALSE] is the SyntaxError the constructor throws.
NewRegExp(src) ==
    LET r == ParseSeq(src, 1, <<>>) IN
    IF r.ok /\ r.next = Len(src) + 1
    THEN [ok |-> TRUE, items |-> r.items]
    ELSE [ok |-> FALSE, items |-> <<>>]     \* also "Unmatched ')'"

RECURSIVE EndsSeq(_, _, _), EndsItem(_, _, _), StarClosure(_, _, _)
EndsItem(it, s, P) ==
    CASE it.t = "lit" -> {p + 1 : p \in {q \in P : q <= Len(s) /\ s[q] = it.c}}
      [] it.t = "class" -> {p + 1 : p \in {q \in P : q <= Len(s) /\ s[q] \in it.c}}
      [] it.t = "any" -> {p + 1 : p \in {q \in P : q <= Len(s) /\ s[q] # "\n"}}
      [] it.t = "bol" -> P \cap {1}
      [] it.t = "group" -> EndsSeq(it.sub, s, P)
      [] it.t = "star" -> StarClosure(it.sub[1], s, P)

StarClosure(it, s, P) ==
    LET Q == P \cup EndsItem(it, s, P) IN
    IF Q = P THEN P ELSE StarClosure(it, s, Q)

EndsSeq(items, s, P) ==
    IF items = <<>> \/ P = {} THEN P
    ELSE EndsSeq(Tail(items), s, EndsItem(Head(items), s, P))

\* RegExp.prototype.test: the pattern matches somewhere in s.
RegexTest(items, s) == EndsSeq(items, s, 1..(Len(s) + 1)) # {}

\* String.prototype.replace(re, "") for a pattern without the g flag: the
\* leftmost match is removed, its quantifiers greedy.
ReplaceFirst(items, s) ==
    LET starts == {p \in 1..(Len(s) + 1) : EndsSeq(items, s, {p}) # {}} IN
    IF starts = {} THEN s
    ELSE LET p == Min(starts)
             e == Max(EndsSeq(items, s, {p}))
         IN  SubSeq(s, 1, p - 1) \o SubSeq(s, e, Len(s))

(***************************************************************************)
(* String helpers of the runtime.                                          *)
(***************************************************************************)
WhiteSpace == {" ", "\n"}

RECURSIVE TrimStart(_)
TrimStart(s) ==
    IF s # <<>> /\ Head(s) \in WhiteSpace THEN TrimStart(Tail(s)) ELSE s

RECURSIVE TrimEnd(_)
TrimEnd(s) ==
    IF s # <<>> /\ s[Len(s)] \in WhiteSpace
    THEN TrimEnd(SubSeq(s, 1, Len(s) - 1)) ELSE s

\* String.prototype.trim
Trim(s) == TrimEnd(TrimStart(s))

\* String.prototype.split("\n"): the pieces between the separators; cur is
\* the piece being read.
RECURSIVE SplitFrom(_, _)
SplitFrom(s, cur) ==
    IF s = <<>> THEN <<cur>>
    ELSE IF Head(s) = "\n" THEN <<cur>> \o SplitFrom(Tail(s), <<>>)
    ELSE SplitFrom(Tail(s), Append(cur, Head(s)))

SplitLines(s) == SplitFrom(s, <<>>)

\* posix.normalize as far as the model's paths need it: runs of "/" collapse
\* (no path of the model has a "." or ".." segment).
RECURSIVE CollapseSlashes(_)
CollapseSlashes(s) ==
    IF Len(s) < 2 THEN s
    ELSE IF s[1] = "/" /\ s[2] = "/" THEN CollapseSlashes(Tail(s))
    ELSE <<s[1]>> \o CollapseSlashes(Tail(s))

\* posix.join(a, b): the non-empty arguments joined by "/" and normalized, a
\* trailing separator kept.
PosixJoin(a, b) ==
    LET parts == SelectSeq(<<a, b>>, LAMBDA x : x # <<>>) IN
    IF parts = <<>> THEN <<".">>
    ELSE IF Len(parts) = 1 THEN CollapseSlashes(parts[1])
    ELSE CollapseSlashes(parts[1] \o <<"/">> \o parts[2])

(***************************************************************************)
(* The file's constants.                                                   *)
(***************************************************************************)
Quality == {"Stable", "Dev", "Canary", "Custom"}

\* const pathSuffixRe = /( \(0x[a-f0-9]+\))/ : the digits are lower case only
\* and the pattern carries no anchor and no flag.
HexLower == {"0", "1", "a", "f"}

HexUpper == {"A", "F"}

pathSuffixRe ==
    <<Group(<<Lit(" "), Lit("("), Lit("0x"),
              Class(HexLower), Star(Class(HexLower)), Lit(")")>>)>>

AppSuffix == <<"/", "Contents/MacOS/firefox">>

\* DarwinFirefoxBrowserFinder.wellKnownPaths
wellKnownPaths ==
    << [path |-> <<"/", "Applications", "/", "Firefox", ".", "app">> \o AppSuffix,
        quality |-> "Stable"],
       [path |-> <<"/", "Applications", "/", "Firefox", " ", "Developer", " ",
                   "Edition", ".", "app">> \o AppSuffix,
        quality |-> "Dev"],
       [path |-> <<"/", "Applications", "/", "Firefox", " ", "Nightly", ".", "app">>
                 \o AppSuffix,
        quality |-> "Canary"] >>

\* findAllInner: const suffixes, const defaultPaths, and the variants handed
\* to createPriorities.
suffixes == <<AppSuffix>>

defaultPaths == << <<"/", "Applications", "/", "Firefox", ".", "app">> >>

FirefoxPriorities ==
    << [name |-> <<"Firefox", ".", "app">>, weight |-> 0, quality |-> "Stable"],
       [name |-> <<"Firefox", " ", "Nightly", ".", "app">>, weight |-> 1,
        quality |-> "Canary"],
       [name |-> <<"Firefox", " ", "Developer", " ", "Edition", ".", "app">>,
        weight |-> 2, quality |-> "Dev"] >>

\* getPreferredPath(): this.env.FIREFOX_PATH
getPreferredPath(e) == e.FIREFOX_PATH

(***************************************************************************)
(* ./util (not among the source files): modelled from the specification.   *)
(***************************************************************************)
RegexSpecialChars == {"/", "\\", ".", "*", "(", ")", "^"}

\* escapeRegexSpecialChars: every character the matcher reads as syntax gets a
\* backslash in front of it.
RECURSIVE escapeRegexSpecialChars(_)
escapeRegexSpecialChars(s) ==
    IF s = <<>> THEN <<>>
    ELSE (IF Head(s) \in RegexSpecialChars THEN <<"\\", Head(s)>> ELSE <<Head(s)>>)
         \o escapeRegexSpecialChars(Tail(s))

\* canAccess(fs, path): whether fs.access(path) succeeded.
canAccess(accessOk) == accessOk

\* The first rule, in list order, whose pattern matches the path; 0 if none.
FirstMatch(rules, path) ==
    LET hits == {k \in 1..Len(rules) : RegexTest(rules[k].regex, path)} IN
    IF hits = {} THEN 0 ELSE Min(hits)

\* One step of a stable sort by weight, descending: x goes behind every
\* element that weighs at least as much.
RECURSIVE InsertByWeight(_, _)
InsertByWeight(sorted, x) ==
    IF sorted = <<>> THEN <<x>>
    ELSE IF Head(sorted).weight >= x.weight
         THEN <<Head(sorted)>> \o InsertByWeight(Tail(sorted), x)
         ELSE <<x>> \o sorted

RECURSIVE StableSortDesc(_, _)
StableSortDesc(items, sorted) ==
    IF items = <<>> THEN sorted
    ELSE StableSortDesc(Tail(items), InsertByWeight(sorted, Head(items)))

\* The candidates with the weight and quality of their first matching rule;
\* a candidate no rule matches is left out.
RECURSIVE Ranked(_, _)
Ranked(installations, rules) ==
    IF installations = <<>> THEN <<>>
    ELSE LET k == FirstMatch(rules, Head(installations)) IN
         (IF k = 0 THEN <<>>
          ELSE << [path |-> Head(installations), weight |-> rules[k].weight,
                   quality |-> rules[k].quality] >>)
         \o Ranked(Tail(installations), rules)

\* sort(installations, priorities)
sort(installations, rules) ==
    LET byWeight == StableSortDesc(Ranked(installations, rules), <<>>) IN
    [k \in 1..Len(byWeight) |->
        [path |-> byWeight[k].path, quality |-> byWeight[k].quality]]

(***************************************************************************)
(* DarwinFinderBase.createPriorities                                       *)
(***************************************************************************)
LocationBonus == 100

OverrideWeight == 151

\* A home directory put into the pattern as it is: const home = this.env.HOME.
HomeValue_raw(e) == e.HOME

\* const home = this.env.HOME && escapeRegexSpecialChars(this.env.HOME)
HomeValue(e) ==
    IF Truthy(e.HOME) THEN Some(escapeRegexSpecialChars(The(e.HOME))) ELSE e.HOME

\* `${home}` in a template literal: undefined prints as the text "undefined".
TemplateText(o) == IF o = Undefined THEN <<"undefined">> ELSE The(o)

\* The three patterns built for one variant, as pattern sources.
LocationSources(e, p) ==
    << <<"^", "/", "Applications", "/", ".", "*">> \o p.name,
       <<"^">> \o TemplateText(HomeValue(e)) \o <<"/", "Applications", "/", ".", "*">>
             \o p.name,
       <<"^", "/", "Volumes", "/", ".", "*">> \o p.name >>

\* The home folder's rule and the system folder's rule with their weights swapped.
LocationWeights_swapped(p) ==
    <<p.weight, p.weight + LocationBonus, p.weight - LocationBonus>>

\* weight: p.weight + 100, p.weight, p.weight - 100
LocationWeights(p) == <<p.weight + LocationBonus, p.weight, p.weight - LocationBonus>>

\* An override pattern anchored at the start of the path.
OverrideSource_anchored(preferred) == <<"^">> \o escapeRegexSpecialChars(preferred)

\* new RegExp(escapeRegexSpecialChars(preferred))
OverrideSource(preferred) == escapeRegexSpecialChars(preferred)

\* The override's rule put behind the location rules: mapped.push(...).
RuleSources_pushed(e, priorities) ==
    LET mapped ==
            Flatten([k \in 1..Len(priorities) |->
                [j \in 1..3 |->
                    [source |-> LocationSources(e, priorities[k])[j],
                     weight |-> LocationWeights(priorities[k])[j],
                     quality |-> priorities[k].quality]]])
        preferred == getPreferredPath(e)
    IN  IF Truthy(preferred)
        THEN Append(mapped, [source |-> OverrideSource(The(preferred)),
                             weight |-> OverrideWeight, quality |-> "Custom"])
        ELSE mapped

\* The rule sources in rule order: the override first when one is configured,
\* then three per variant in the variants' order (priorities.reduce, unshift).
RuleSources(e, priorities) ==
    LET mapped ==
            Flatten([k \in 1..Len(priorities) |->
                [j \in 1..3 |->
                    [source |-> LocationSources(e, priorities[k])[j],
                     weight |-> LocationWeights(priorities[k])[j],
                     quality |-> priorities[k].quality]]])
        preferred == getPreferredPath(e)
    IN  IF Truthy(preferred)
        THEN << [source |-> OverrideSource(The(preferred)),
                 weight |-> OverrideWeight, quality |-> "Custom"] >> \o mapped
        ELSE mapped

\* createPriorities(priorities): threw when a RegExp constructor rejects its
\* source, else the rules with their compiled patterns.
createPriorities(e, priorities) ==
    LET srcs == RuleSources(e, priorities) IN
    IF \E k \in 1..Len(srcs) : ~NewRegExp(srcs[k].source).ok
    THEN [threw |-> TRUE, rules |-> <<>>]
    ELSE [threw |-> FALSE,
          rules |-> [k \in 1..Len(srcs) |->
                        [regex |-> NewRegExp(srcs[k].source).items,
                         weight |-> srcs[k].weight,
                         quality |-> srcs[k].quality]]]

(***************************************************************************)
(* DarwinFinderBase.findLaunchRegisteredApps, its synchronous parts.       *)
(***************************************************************************)
\* l.trim().replace(pathSuffixRe, "")
StripLine(l) == ReplaceFirst(pathSuffixRe, Trim(l))

\* const paths = [...defaultPaths, ...stdout.split("\n").map(...)].filter(l => !!l),
\* then paths.push(preferred) if (preferred).
ScanPaths(e, stdout) ==
    LET lines == SplitLines(stdout)
        all == defaultPaths \o [k \in 1..Len(lines) |-> StripLine(lines[k])]
        kept == SelectSeq(all, LAMBDA l : l # <<>>)
        preferred == getPreferredPath(e)
    IN  IF Truthy(preferred) THEN Append(kept, The(preferred)) ELSE kept

\* The (inst, suffix) pairs in the order the two nested loops visit them, each
\* as its execPath = posix.join(inst.trim(), suffix).
ExecPaths(paths) ==
    Flatten([k \in 1..Len(paths) |->
        [j \in 1..Len(suffixes) |-> PosixJoin(Trim(paths[k]), suffixes[j])]])

\* A collection that puts every new element in front of the others.
SetAdd_front(installations, x) ==
    IF \E k \in 1..Len(installations) : installations[k] = x
    THEN installations ELSE <<x>> \o installations

\* installations.push(execPath) on a list.
SetAdd_list(installations, x) == Append(installations, x)

\* installations.add(execPath) on a Set, which keeps insertion order.
SetAdd(installations, x) ==
    IF \E k \in 1..Len(installations) : installations[k] = x
    THEN installations ELSE Append(installations, x)

(***************************************************************************)
(* The finder as a state machine.                                          *)
(*                                                                         *)
(* The constructor's arguments are the state's environment: env, the       *)
(* file system behind fs.access and the outcome of execa.command.  The     *)
(* file system is decided path by path, at the first access of each path,  *)
(* and stays as decided.                                                   *)
(***************************************************************************)
VARIABLES
    env,        \* this.env: [HOME, FIREFOX_PATH], each a string or undefined
    cmd,        \* what execa.command does: [ok, stdout]
    fsYes,      \* paths fs.access has been seen to accept
    fsNo,       \* paths fs.access has been seen to reject
    foundAll,   \* this.foundAll: 0 is undefined, else the number of a promise
    scans,      \* the findAllInner() invocations, each with its promise
    cmdCalls,   \* how often execa.command has been invoked
    callers,    \* the callers of findAll / findWhere and where each stands
    budget,     \* operations the callers may still start
    arg,        \* the input of the pure function under check
    ret         \* what the pure function made of it

vars == <<env, cmd, fsYes, fsNo, foundAll, scans, cmdCalls, callers, budget, arg, ret>>

finderVars == <<env, cmd, fsYes, fsNo, foundAll, scans, cmdCalls, callers, budget>>

NumCallers == 2

MaxCalls == 2

MaxLines == 1

MaxScanLines == 3

Callers == 1..NumCallers

\* The predicates callers pass to findWhere: exe => S.includes(exe.quality).
Predicates == {{"Stable"}, {"Canary", "Dev"}, {"Custom"}, Quality}

predicate(pred, exe) == exe.quality \in pred

HomeDir == <<"/", "Users/a">>

FirefoxApp == <<"Firefox", ".", "app">>

NightlyApp == <<"Firefox", " ", "Nightly", ".", "app">>

Applications == <<"/", "Applications", "/">>

\* An executable's path, as a user would configure it in FIREFOX_PATH.
HomeNightlyExe == HomeDir \o Applications \o NightlyApp \o AppSuffix

\* Lines of the launch-services dump that pass the awk filter, as awk prints
\* them: $1 = "" leaves a leading blank.
LineSystemFirefox == <<" ">> \o Applications \o FirefoxApp \o <<" ", "(", "0x", "1", "a", ")">>

LineSystemNightly == <<" ">> \o Applications \o NightlyApp

LineHomeNightly == <<" ">> \o HomeDir \o Applications \o NightlyApp

LineVolumeNightly ==
    <<" ", "/", "Volumes", "/", "Disk", "/">> \o NightlyApp \o <<" ", "(", "0x", "f", ")">>

LineBackupNightly ==
    <<" ", "/", "Volumes", "/", "Backup">> \o HomeDir \o Applications \o NightlyApp

LineOptFirefox == <<" ", "/", "opt", "/">> \o FirefoxApp

\* The sequences of at most n different lines of L.
RECURSIVE Listings(_, _)
Listings(L, n) ==
    IF n = 0 THEN {<<>>}
    ELSE LET shorter == Listings(L, n - 1) IN
         shorter \cup
         {Append(x[1], x[2]) : x \in
             {y \in shorter \X L :
                 Len(y[1]) = n - 1 /\ \A k \in 1..Len(y[1]) : y[1][k] # y[2]}}

\* stdout: every line ends with a newline.
Stdout(ls) == Flatten([k \in 1..Len(ls) |-> Append(ls[k], "\n")])

CommandResults(L, n) ==
    {[ok |-> FALSE, stdout |-> <<>>]}
    \cup {[ok |-> TRUE, stdout |-> Stdout(ls)] : ls \in Listings(L, n)}

IdleCaller ==
    [pc |-> "idle", op |-> "none", pred |-> {}, i |-> 0, p |-> 0, kind |-> "none",
     via |-> "", list |-> <<>>, exe |-> Undefined, started |-> 0, invoked |-> 0]

\* A caller that never calls.
AbsentCaller == [IdleCaller EXCEPT !.pc = "absent"]

NoInput == [f |-> "none"]

\* Several callers, a small registry.
FinderEnvs ==
    [HOME : {Some(HomeDir)}, FIREFOX_PATH : {Undefined, Some(defaultPaths[1])}]

FinderLines == {LineOptFirefox, LineVolumeNightly}

Init ==
    /\ env \in FinderEnvs
    /\ cmd \in CommandResults(FinderLines, MaxLines)
    /\ fsYes = {}
    /\ fsNo = {}
    /\ foundAll = 0
    /\ scans = <<>>
    /\ cmdCalls = 0
    /\ callers = [c \in Callers |-> IdleCaller]
    /\ budget = MaxCalls
    /\ arg = NoInput
    /\ ret = NoInput

\* One operation on a fresh finder, a rich registry.
ScanEnvs ==
    [HOME : {Some(HomeDir)},
     FIREFOX_PATH : {Undefined, Some(defaultPaths[1]), Some(HomeNightlyExe)}]
    \cup [HOME : {Undefined}, FIREFOX_PATH : {Undefined}]

ScanLines ==
    {LineSystemFirefox, LineSystemNightly, LineHomeNightly, LineVolumeNightly,
     LineBackupNightly}

InitScan ==
    /\ env \in ScanEnvs
    /\ cmd \in CommandResults(ScanLines, MaxScanLines)
    /\ fsYes = {}
    /\ fsNo = {}
    /\ foundAll = 0
    /\ scans = <<>>
    /\ cmdCalls = 0
    /\ callers = [c \in Callers |-> IF c = 1 THEN IdleCaller ELSE AbsentCaller]
    /\ budget = 1
    /\ arg = NoInput
    /\ ret = NoInput

\* fs.access(path): as decided before, or decided now.
FsOutcomes(path) ==
    IF path \in fsYes THEN {TRUE} ELSE IF path \in fsNo THEN {FALSE} ELSE BOOLEAN

FsDecide(path, ok) ==
    /\ fsYes' = IF ok THEN fsYes \cup {path} ELSE fsYes
    /\ fsNo' = IF ok THEN fsNo ELSE fsNo \cup {path}

(***************************************************************************)
(* findAll(): this.foundAll ??= this.findAllInner(); return this.foundAll  *)
(***************************************************************************)
\* A findAll() that forgets its cell: this.foundAll = this.findAllInner().
AssignsCell_always(cell) == TRUE

\* ??= assigns only when the cell is undefined.
AssignsCell(cell) == cell = 0

\* findAllInner() up to its first await: the command is invoked.
NewScan == [pc |-> "cmd", paths |-> <<>>, idx |-> 0, installations |-> <<>>,
            value |-> <<>>]

\* The call's effect on the cell, the scans and the command; the caller then
\* holds promise foundAll'.
findAll ==
    IF AssignsCell(foundAll)
    THEN /\ scans' = Append(scans, NewScan)
         /\ foundAll' = Len(scans) + 1
         /\ cmdCalls' = cmdCalls + 1
    ELSE UNCHANGED <<scans, foundAll, cmdCalls>>

Awaiting(c, op, pred) ==
    [pc |-> "await", op |-> op, pred |-> pred, i |-> 0, p |-> foundAll',
     kind |-> "none", via |-> "", list |-> <<>>, exe |-> Undefined,
     started |-> Len(scans') - Len(scans), invoked |-> 1]

\* A caller calls findAll() and awaits the promise it returns.
FindAllCall(c) ==
    /\ callers[c].pc \in {"idle", "done"}
    /\ budget > 0
    /\ budget' = budget - 1
    /\ findAll
    /\ callers' = [callers EXCEPT ![c] = Awaiting(c, "findAll", {})]
    /\ UNCHANGED <<env, cmd, fsYes, fsNo, arg, ret>>

(***************************************************************************)
(* findWhere(predicate)                                                    *)
(***************************************************************************)
\* A findWhere() that goes straight to findAll().
NextProbe_none(pred, from) == 0

\* A loop that probes every entry, whatever the predicate says of it.
NextProbe_every(pred, from) == IF from <= Len(wellKnownPaths) THEN from ELSE 0

\* for (const test of this.wellKnownPaths) if (predicate(test) && ...): the
\* next entry, from index `from` on, that the loop probes; 0 when the loop ends.
NextProbe(pred, from) ==
    LET js == {j \in from..Len(wellKnownPaths) : predicate(pred, wellKnownPaths[j])} IN
    IF js = {} THEN 0 ELSE Min(js)

\* A find() that returns the last element the predicate accepts.
Find_last(list, pred) ==
    LET ks == {k \in 1..Len(list) : predicate(pred, list[k])} IN
    IF ks = {} THEN Undefined ELSE Some(list[Max(ks)])

\* (await this.findAll()).find(predicate)
Find(list, pred) ==
    LET ks == {k \in 1..Len(list) : predicate(pred, list[k])} IN
    IF ks = {} THEN Undefined ELSE Some(list[Min(ks)])

\* The loop goes on from entry `from`: it probes the next entry the predicate
\* accepts, or leaves the loop and calls findAll().
ContinueLoop(c, pred, from) ==
    LET j == NextProbe(pred, from) IN
    IF j = 0
    THEN /\ findAll
         /\ callers' = [callers EXCEPT ![c] = Awaiting(c, "findWhere", pred)]
    ELSE /\ callers' = [callers EXCEPT ![c] =
                [pc |-> "probe", op |-> "findWhere", pred |-> pred, i |-> j, p |-> 0,
                 kind |-> "none", via |-> "", list |-> <<>>, exe |-> Undefined,
                 started |-> 0, invoked |-> 0]]
         /\ UNCHANGED <<scans, foundAll, cmdCalls>>

FindWhereCall(c, pred) ==
    /\ callers[c].pc \in {"idle", "done"}
    /\ budget > 0
    /\ budget' = budget - 1
    /\ ContinueLoop(c, pred, 1)
    /\ UNCHANGED <<env, cmd, fsYes, fsNo, arg, ret>>

\* A fast path that looks at the override: an entry under the override path is
\* returned as Custom.
Returned_relabelled(e, test) ==
    IF Truthy(getPreferredPath(e)) /\ Contains(test.path, The(getPreferredPath(e)))
    THEN [test EXCEPT !.quality = "Custom"] ELSE test

\* return test: the entry as the well-known list declares it; this.env is not
\* read.
Returned(e, test) == test

\* await canAccess(this.fs, test.path) returns.
ProbeReturn(c) ==
    /\ callers[c].pc = "probe"
    /\ LET test == wellKnownPaths[callers[c].i] IN
       \E ok \in FsOutcomes(test.path) :
          /\ FsDecide(test.path, ok)
          /\ IF canAccess(ok)
             THEN /\ callers' = [callers EXCEPT ![c] =
                        [@ EXCEPT !.pc = "done", !.kind = "value", !.via = "wellKnown",
                                  !.exe = Some(Returned(env, test))]]
                  /\ UNCHANGED <<scans, foundAll, cmdCalls>>
             ELSE ContinueLoop(c, callers[c].pred, callers[c].i + 1)
    /\ UNCHANGED <<env, cmd, budget, arg, ret>>

\* The awaited promise has settled and the caller goes on.
AwaitReturn(c) ==
    /\ callers[c].pc = "await"
    /\ LET scan == scans[callers[c].p] IN
       /\ scan.pc \in {"fulfilled", "rejected"}
       /\ callers' = [callers EXCEPT ![c] =
             IF scan.pc = "rejected"
             THEN [@ EXCEPT !.pc = "done", !.kind = "throw", !.via = "scan"]
             ELSE IF callers[c].op = "findAll"
             THEN [@ EXCEPT !.pc = "done", !.kind = "value", !.via = "scan",
                            !.list = scan.value]
             ELSE [@ EXCEPT !.pc = "done", !.kind = "value", !.via = "scan",
                            !.exe = Find(scan.value, callers[c].pred)]]
    /\ UNCHANGED <<env, cmd, fsYes, fsNo, foundAll, scans, cmdCalls, budget, arg, ret>>

(***************************************************************************)
(* findAllInner() and findLaunchRegisteredApps(), await by await.          *)
(***************************************************************************)
\* return sort(installations, this.createPriorities([...]))
Finish(scan, installations) ==
    LET prio == createPriorities(env, FirefoxPriorities) IN
    IF prio.threw
    THEN [scan EXCEPT !.pc = "rejected", !.installations = installations]
    ELSE [scan EXCEPT !.pc = "fulfilled", !.installations = installations,
                      !.value = sort(installations, prio.rules)]

\* A scanner that catches the command's failure and goes on with no output.
CommandFailed_swallowed(scan) == Finish(scan, <<>>)

\* The awaited command throws: nothing catches it, and the promise of
\* findAllInner() is rejected.
CommandFailed(scan) == [scan EXCEPT !.pc = "rejected"]

\* await this.execa.command(...) returns or throws.
CmdReturn(s) ==
    /\ scans[s].pc = "cmd"
    /\ scans' = [scans EXCEPT ![s] =
          IF ~cmd.ok THEN CommandFailed(@)
          ELSE LET paths == ExecPaths(ScanPaths(env, cmd.stdout)) IN
               IF paths = <<>> THEN Finish(@, <<>>)
               ELSE [@ EXCEPT !.pc = "access", !.paths = paths, !.idx = 1]]
    /\ UNCHANGED <<env, cmd, fsYes, fsNo, foundAll, cmdCalls, callers, budget, arg, ret>>

\* A catch that gives up what the loop has collected so far.
NoAccess_reset(installations) == <<>>

\* catch (e) { /* no access => ignored */ }: the set stays as it is and the
\* loop goes on.
NoAccess(installations) == installations

\* try { await this.fs.access(execPath); installations.add(execPath) } catch {}
AccessReturn(s) ==
    /\ scans[s].pc = "access"
    /\ LET scan == scans[s]
           execPath == scan.paths[scan.idx]
       IN  \E ok \in FsOutcomes(execPath) :
              /\ FsDecide(execPath, ok)
              /\ LET installations ==
                         IF ok THEN SetAdd(scan.installations, execPath)
                         ELSE NoAccess(scan.installations)
                 IN  scans' = [scans EXCEPT ![s] =
                        IF scan.idx = Len(scan.paths) THEN Finish(scan, installations)
                        ELSE [scan EXCEPT !.idx = scan.idx + 1,
                                          !.installations = installations]]
    /\ UNCHANGED <<env, cmd, foundAll, cmdCalls, callers, budget, arg, ret>>

Next ==
    \/ \E c \in Callers : FindAllCall(c)
    \/ \E c \in Callers, pred \in Predicates : FindWhereCall(c, pred)
    \/ \E c \in Callers : ProbeReturn(c)
    \/ \E c \in Callers : AwaitReturn(c)
    \/ \E s \in 1..Len(scans) : CmdReturn(s)
    \/ \E s \in 1..Len(scans) : AccessReturn(s)

Spec == Init /\ [][Next]_vars

SpecScan == InitScan /\ [][Next]_vars

\* One operation on a fresh finder whose sources overlap: the registry lists
\* the default directory, more than once with different markers, and the
\* override names it too.
LineSystemFirefoxAgain == <<" ">> \o Applications \o FirefoxApp \o <<" ", "(", "0x", "f", ")">>

LineSystemFirefoxPlain == <<" ">> \o Applications \o FirefoxApp

OverlapEnvs ==
    [HOME : {Some(HomeDir)},
     FIREFOX_PATH : {Undefined, Some(defaultPaths[1]), Some(Append(defaultPaths[1], "/"))}]

OverlapLines ==
    {LineSystemFirefox, LineSystemFirefoxAgain, LineSystemFirefoxPlain, LineVolumeNightly}

InitOverlap ==
    /\ env \in OverlapEnvs
    /\ cmd \in CommandResults(OverlapLines, MaxScanLines)
    /\ fsYes = {}
    /\ fsNo = {}
    /\ foundAll = 0
    /\ scans = <<>>
    /\ cmdCalls = 0
    /\ callers = [c \in Callers |-> IF c = 1 THEN IdleCaller ELSE AbsentCaller]
    /\ budget = 1
    /\ arg = NoInput
    /\ ret = NoInput

SpecOverlap == InitOverlap /\ [][Next]_vars

\* Several callers on a finder with an override: the default directory, or the
\* home folder's Firefox Nightly.
PreferredEnvs ==
    [HOME : {Some(HomeDir)},
     FIREFOX_PATH : {Some(defaultPaths[1]), Some(HomeDir \o Applications \o NightlyApp)}]

InitPreferred ==
    /\ env \in PreferredEnvs
    /\ cmd \in CommandResults({LineVolumeNightly}, MaxLines)
    /\ fsYes = {}
    /\ fsNo = {}
    /\ foundAll = 0
    /\ scans = <<>>
    /\ cmdCalls = 0
    /\ callers = [c \in Callers |-> IdleCaller]
    /\ budget = MaxCalls
    /\ arg = NoInput
    /\ ret = NoInput

SpecPreferred == InitPreferred /\ [][Next]_vars

(***************************************************************************)
(* The pure functions on their own: an input is drawn, the function is     *)
(* applied once and its result kept in ret.                                *)
(***************************************************************************)
MaxHexLen == 2

MaxEnvLen == 2

\* The strings over alphabet A of length at most n.
RECURSIVE Strings(_, _)
Strings(A, n) ==
    IF n = 0 THEN {<<>>}
    ELSE LET shorter == Strings(A, n - 1) IN
         shorter \cup {Append(x[1], x[2]) : x \in {y \in shorter \X A : Len(y[1]) = n - 1}}

QuietFinder ==
    /\ cmd = [ok |-> TRUE, stdout |-> <<>>]
    /\ fsYes = {}
    /\ fsNo = {}
    /\ foundAll = 0
    /\ scans = <<>>
    /\ cmdCalls = 0
    /\ callers = [c \in Callers |-> AbsentCaller]
    /\ budget = 0

\* Registered application paths; one has a folder whose name looks like a marker.
StripPaths ==
    { Applications \o FirefoxApp,
      HomeDir \o Applications \o NightlyApp,
      <<"/", "Volumes", "/", "Disk", "/">> \o NightlyApp,
      <<"/", "Volumes", "/", "Disk", " ", "(", "0x", "a", ")", "/">> \o FirefoxApp }

HexStrings == Strings(HexLower \cup HexUpper, MaxHexLen) \ {<<>>}

\* The marker the registry appends to a path: " (0xH)".
Marker(hex) == <<" ", "(", "0x">> \o hex \o <<")">>

InitStrip ==
    /\ QuietFinder
    /\ env = [HOME |-> Undefined, FIREFOX_PATH |-> Undefined]
    /\ arg \in [f : {"strip"}, path : StripPaths, hex : HexStrings]
    /\ ret = NoInput

\* .map((l) => l.trim().replace(pathSuffixRe, "")) on the line of the path
\* alone and on the line of the path with its marker.
StripLines ==
    /\ arg.f = "strip"
    /\ ret = NoInput
    /\ ret' = [f |-> "strip",
               plain |-> StripLine(<<" ">> \o arg.path),
               marked |-> StripLine(<<" ">> \o arg.path \o Marker(arg.hex))]
    /\ UNCHANGED <<finderVars, arg>>

SpecStrip == InitStrip /\ [][StripLines]_vars

RuleAlphabet == {"a", ".", "(", ")", "*"}

RuleStrings == Strings(RuleAlphabet, MaxEnvLen)

\* One of the two strings is arbitrary, the other is not.
RuleEnvs ==
    [HOME : {Undefined} \cup {Some(x) : x \in RuleStrings}, FIREFOX_PATH : {Undefined}]
    \cup [HOME : {Some(HomeDir)},
          FIREFOX_PATH : {Undefined} \cup {Some(x) : x \in RuleStrings}]

\* Paths of a Firefox in an Applications folder under every short prefix, and
\* under the text "undefined".
RulePaths ==
    {x \o Applications \o FirefoxApp \o AppSuffix :
        x \in RuleStrings \cup {<<"undefined">>, HomeDir}}

InitRules ==
    /\ QuietFinder
    /\ env \in RuleEnvs
    /\ arg \in [f : {"rules"}, path : RulePaths]
    /\ ret = NoInput

\* createPriorities(...) is called and the path is tested against the rules it
\* returned: home holds the variants whose home rule matches the path.
BuildAndTestRules ==
    /\ arg.f = "rules"
    /\ ret = NoInput
    /\ LET prio == createPriorities(env, FirefoxPriorities)
           off == IF Truthy(getPreferredPath(env)) THEN 1 ELSE 0
       IN  ret' = IF prio.threw
                  THEN [f |-> "rules", threw |-> TRUE, home |-> {}, override |-> FALSE]
                  ELSE [f |-> "rules", threw |-> FALSE,
                        home |-> {n \in 1..Len(FirefoxPriorities) :
                                     RegexTest(prio.rules[off + 3 * (n - 1) + 2].regex,
                                               arg.path)},
                        override |-> off = 1 /\ RegexTest(prio.rules[1].regex, arg.path)]
    /\ UNCHANGED <<finderVars, arg>>

SpecRules == InitRules /\ [][BuildAndTestRules]_vars

MaxVariants == 3

MaxWeight == 51

\* The base weights a finder may give its variants: the Firefox finder's and
\* the largest ones.
Weights == (0..2) \cup ((MaxWeight - 1)..MaxWeight)

\* The argument of createPriorities: variants of the Firefox family, at most
\* MaxVariants of them in any order, each with a base weight.
VariantLists ==
    UNION { {[k \in 1..Len(ns) |->
                [name |-> FirefoxPriorities[ns[k]].name,
                 weight |-> w[k],
                 quality |-> FirefoxPriorities[ns[k]].quality]] :
             w \in [1..Len(ns) -> Weights]} :
            ns \in Listings(1..Len(FirefoxPriorities), MaxVariants) }

InitPriorities ==
    /\ QuietFinder
    /\ env \in [HOME : {Some(HomeDir)}, FIREFOX_PATH : {Undefined, Some(HomeNightlyExe)}]
    /\ arg \in [f : {"priorities"}, priorities : VariantLists]
    /\ ret = NoInput

\* createPriorities(priorities) is called and what it returns is kept.
BuildPriorities ==
    /\ arg.f = "priorities"
    /\ ret = NoInput
    /\ LET prio == createPriorities(env, arg.priorities) IN
       ret' = [f |-> "priorities", threw |-> prio.threw, rules |-> prio.rules]
    /\ UNCHANGED <<finderVars, arg>>

SpecPriorities == InitPriorities /\ [][BuildPriorities]_vars

(***************************************************************************)
(* Properties.                                                             *)
(***************************************************************************)
Settled(s) == scans[s].pc \in {"fulfilled", "rejected"}

\* The caller has called findAll(), directly or at the end of findWhere's loop.
Invoked(c) == callers[c].invoked > 0

Done(c) == callers[c].pc = "done"

\* This step is a call of findAll().
FindAllInvocation ==
    \E c \in Callers : callers[c].pc # "await" /\ callers'[c].pc = "await"

\* C1: however many findAll() calls are made, one after another or while the
\* first scan is pending, findAllInner and the command are started exactly once,
\* every caller holds the same promise and every caller is handed its outcome.
C1_SingleScan ==
    /\ Len(scans) <= 1
    /\ cmdCalls = Len(scans)
    /\ foundAll = Len(scans)
    /\ \A c \in Callers :
          Invoked(c) =>
             /\ cmdCalls = 1
             /\ callers[c].p = foundAll
             /\ Done(c) => /\ Settled(callers[c].p)
                           /\ (callers[c].kind = "throw") = (scans[callers[c].p].pc = "rejected")
                           /\ callers[c].op = "findAll" /\ callers[c].kind = "value"
                                 => callers[c].list = scans[callers[c].p].value

\* Two callers wait on the one pending scan.
C1_Witness ==
    \E c, d \in Callers :
        /\ c # d
        /\ callers[c].pc = "await" /\ callers[d].pc = "await"
        /\ callers[c].op = "findAll" /\ callers[d].op = "findAll"
        /\ callers[c].p = callers[d].p
        /\ ~Settled(callers[c].p)
        /\ cmdCalls = 1

\* C2: once the command has failed and a caller has been handed the failure, a
\* fresh findAll() call starts a new scan: it invokes the command again.
C2_RetryAfterFailure ==
    [][ (/\ \E c \in Callers : Done(c) /\ callers[c].kind = "throw"
         /\ FindAllInvocation)
        => cmdCalls' = cmdCalls + 1 ]_vars

\* The candidates of the caller's scan that passed the access check and that
\* some priority rule matches.
RankedInstallations(c) ==
    LET prio == createPriorities(env, FirefoxPriorities)
        inst == scans[callers[c].p].installations
    IN  {k \in 1..Len(inst) : FirstMatch(prio.rules, inst[k]) # 0}

\* C3 as stated: a failed command ends every call that reached the scan in a
\* failure, and findAll() returns an empty list only when the command
\* succeeded and no candidate was accessible.
C3_EmptyMeansNothingAccessible ==
    \A c \in Callers :
        Done(c) /\ callers[c].via = "scan" =>
           /\ ~cmd.ok => callers[c].kind = "throw"
           /\ callers[c].op = "findAll" /\ callers[c].kind = "value" /\ callers[c].list = <<>>
                 => cmd.ok /\ scans[callers[c].p].installations = <<>>

\* C3, amended: a failed command ends every call that reached the scan
\* (findAll, or a findWhere past its loop) in a failure, never in a list or an
\* absent result; findAll() returns an empty list only when the command
\* succeeded and no accessible candidate matched a priority rule.
C3_FailurePropagates ==
    \A c \in Callers :
        Done(c) /\ callers[c].via = "scan" =>
           /\ ~cmd.ok => callers[c].kind = "throw"
           /\ callers[c].kind = "value" => cmd.ok
           /\ callers[c].op = "findAll" /\ callers[c].kind = "value" /\ callers[c].list = <<>>
                 => cmd.ok /\ RankedInstallations(c) = {}

\* A findWhere that fell through to the scan ends in the command's failure.
C3_Witness ==
    \E c \in Callers :
        /\ Done(c) /\ callers[c].op = "findWhere" /\ callers[c].via = "scan"
        /\ ~cmd.ok /\ callers[c].kind = "throw"

\* The well-known entries the predicate accepts.
Accepted(pred) ==
    {j \in 1..Len(wellKnownPaths) : predicate(pred, wellKnownPaths[j])}

C4_NoScanByCall ==
    \A c \in Callers :
        callers[c].op = "findWhere" =>
           /\ Invoked(c) => \A j \in Accepted(callers[c].pred) : wellKnownPaths[j].path \in fsNo
           /\ callers[c].via = "wellKnown" => callers[c].invoked = 0 /\ callers[c].started = 0

C4_ReturnStep ==
    \A c \in Callers :
        (/\ callers[c].pc = "probe"
         /\ callers'[c] # callers[c]
         /\ wellKnownPaths[callers[c].i].path \in fsYes')
        => /\ callers'[c].pc = "done"
           /\ callers'[c].via = "wellKnown"
           /\ UNCHANGED <<foundAll, scans, cmdCalls>>

\* C4: when a well-known path that the predicate accepts is accessible,
\* findWhere returns without that call invoking findAll(): the call starts no
\* scan, invokes no command and leaves this.foundAll as it was.
C4_FastPathSkipsScan == []C4_NoScanByCall /\ [][C4_ReturnStep]_vars

\* A findWhere has returned a well-known entry and no scan was ever started.
C4_Witness ==
    \E c \in Callers :
        /\ Done(c) /\ callers[c].via = "wellKnown"
        /\ foundAll = 0 /\ cmdCalls = 0 /\ scans = <<>>

\* C5: findWhere returns the first well-known entry, in declaration order, that
\* the predicate accepts and that is accessible; if there is none it returns the
\* first element of findAll()'s list that the predicate accepts, and undefined
\* (no failure) when the list has none.
C5_FindWhereResult ==
    \A c \in Callers :
        Done(c) /\ callers[c].op = "findWhere" /\ callers[c].kind = "value" =>
           LET acc == Accepted(callers[c].pred)
               hits == {j \in acc : wellKnownPaths[j].path \in fsYes}
               list == scans[callers[c].p].value
               ks == {k \in 1..Len(list) : predicate(callers[c].pred, list[k])}
           IN  IF callers[c].via = "wellKnown"
               THEN /\ hits # {}
                    /\ callers[c].exe = Some(wellKnownPaths[Min(hits)])
                    /\ \A j \in acc : j < Min(hits) => wellKnownPaths[j].path \in fsNo
               ELSE /\ \A j \in acc : wellKnownPaths[j].path \in fsNo
                    /\ scans[callers[c].p].pc = "fulfilled"
                    /\ IF ks = {} THEN callers[c].exe = Undefined
                       ELSE /\ callers[c].exe = Some(list[Min(ks)])
                            /\ \A k \in 1..Len(list) :
                                  k < Min(ks) => ~predicate(callers[c].pred, list[k])

\* A findWhere past its loop returned the first of several elements of the
\* list that its predicate accepts.
C5_Witness ==
    \E c \in Callers :
        /\ Done(c) /\ callers[c].op = "findWhere" /\ callers[c].via = "scan"
        /\ callers[c].exe # Undefined
        /\ LET list == scans[callers[c].p].value IN
           Cardinality({k \in 1..Len(list) : predicate(callers[c].pred, list[k])}) >= 2

\* Where a path stands in a list of executables; 0 if it is not in it.
Position(list, path) ==
    LET ks == {k \in 1..Len(list) : list[k].path = path} IN
    IF ks = {} THEN 0 ELSE Min(ks)

InList(list, path) == Position(list, path) # 0

Preferred == getPreferredPath(env)

\* C6: when an override is configured and the override path is among the
\* scanned candidates, it is the first element of findAll()'s result and its
\* quality is Custom, whatever else was discovered.
C6_OverrideRankedFirst ==
    \A s \in 1..Len(scans) :
        (/\ scans[s].pc = "fulfilled"
         /\ Truthy(Preferred)
         /\ \E k \in 1..Len(scans[s].installations) :
               scans[s].installations[k] = The(Preferred))
        => /\ scans[s].value # <<>>
           /\ scans[s].value[1] = [path |-> The(Preferred), quality |-> "Custom"]

\* The three places of variant p: the system folder, the home folder, a volume.
SystemPlace(p) == Applications \o p.name \o AppSuffix

HomePlace(p) == The(env.HOME) \o Applications \o p.name \o AppSuffix

VolumePlace(p) == <<"/", "Volumes", "/", "Disk", "/">> \o p.name \o AppSuffix

\* The weight sort() ranks a candidate of the scan by; -1000 if no rule matches.
WeightOf(s, path) ==
    LET prio == createPriorities(env, FirefoxPriorities)
        k == FirstMatch(prio.rules, path)
    IN  IF k = 0 THEN -1000 ELSE prio.rules[k].weight

\* C7: with no override, the candidates of one variant with base weight w in
\* /Applications, $HOME/Applications and /Volumes/Disk weigh w + 100, w and
\* w - 100, carry the variant's quality and stand in findAll()'s result in
\* that order, in whatever order the scan discovered them.
C7_LocationOrder ==
    \A s \in 1..Len(scans) :
        (scans[s].pc = "fulfilled" /\ ~Truthy(Preferred) /\ Truthy(env.HOME)) =>
           \A n \in 1..Len(FirefoxPriorities) :
              LET p == FirefoxPriorities[n]
                  places == <<SystemPlace(p), HomePlace(p), VolumePlace(p)>>
                  weights == <<p.weight + 100, p.weight, p.weight - 100>>
                  found == {j \in 1..3 :
                               \E k \in 1..Len(scans[s].installations) :
                                   scans[s].installations[k] = places[j]}
              IN  /\ \A j \in found :
                        /\ InList(scans[s].value, places[j])
                        /\ scans[s].value[Position(scans[s].value, places[j])].quality
                              = p.quality
                        /\ WeightOf(s, places[j]) = weights[j]
                  /\ \A i, j \in found :
                        i < j => Position(scans[s].value, places[i])
                                    < Position(scans[s].value, places[j])

\* All three places of Firefox Nightly were found, the volume's first and the
\* system folder's last.
C7_Witness ==
    \E s \in 1..Len(scans) :
        /\ scans[s].pc = "fulfilled" /\ ~Truthy(Preferred) /\ Truthy(env.HOME)
        /\ LET p == FirefoxPriorities[2]
               inst == scans[s].installations
           IN  \E a, b, c \in 1..Len(inst) :
                  /\ a < b /\ b < c
                  /\ inst[a] = VolumePlace(p)
                  /\ inst[b] = HomePlace(p)
                  /\ inst[c] = SystemPlace(p)

HoldsOverride(s) ==
    {k \in 1..Len(scans[s].installations) :
        Contains(scans[s].installations[k], The(Preferred))}

C8_MarkerStripped ==
    ret.f = "strip" => ret.marked = ret.plain /\ ret.marked = arg.path

\* The text a home directory stands for in the home rule's pattern.
HomeText == IF env.HOME = Undefined THEN <<"undefined">> ELSE The(env.HOME)

\* C9: for every home directory and every override string, also with the
\* characters . ( ) * in them, and for no home directory at all,
\* createPriorities returns without throwing, its home rules match only paths
\* that begin with the home directory's text followed by /Applications/, and
\* its override rule matches only paths that contain the override string.
C9_EscapedRules ==
    ret.f = "rules" =>
       /\ ~ret.threw
       /\ ret.home # {} => StartsWith(arg.path, HomeText \o Applications)
       /\ ret.override => Contains(arg.path, The(Preferred))

\* A home directory with a special character in it, and a path under it that
\* its rule matches.
C9_Witness ==
    /\ ret.f = "rules"
    /\ env.HOME # Undefined
    /\ \E k \in 1..Len(The(env.HOME)) : The(env.HOME)[k] \in {".", "(", ")", "*"}
    /\ ret.home # {}

\* C11: with an override configured, the override rule weighs more than
\* max(weight) + 100 over the variants handed to createPriorities, and so more
\* than every location rule of the same rule set.
C11_OverrideOutweighs ==
    (ret.f = "priorities" /\ Truthy(Preferred) /\ ~ret.threw) =>
       /\ \A k \in 1..Len(arg.priorities) :
             ret.rules[1].weight > arg.priorities[k].weight + 100
       /\ \A k \in 2..Len(ret.rules) : ret.rules[1].weight > ret.rules[k].weight

\* The elements of a sequence, as a set.
Range(seq) == {seq[k] : k \in 1..Len(seq)}

\* The execPaths a scan visits, in the order of its two loops.
Visited(s) == ExecPaths(ScanPaths(env, cmd.stdout))

\* C12: in a scan whose command succeeded, the candidates collected are exactly
\* the joined paths whose access check succeeded: while the loop runs, those of
\* the paths checked so far, and at its end, those of all paths; a failed check
\* leaves out that candidate alone, the scan goes on to every later path and
\* ends in a result.
C12_FailedCheckSkipsOne ==
    \A s \in 1..Len(scans) :
        (cmd.ok /\ scans[s].pc # "cmd") =>
           LET all == Visited(s)
               upto == IF scans[s].pc = "access" THEN scans[s].idx - 1 ELSE Len(all)
           IN  /\ scans[s].pc \in {"access", "fulfilled"}
               /\ \A k \in 1..upto : all[k] \in fsYes \cup fsNo
               /\ Range(scans[s].installations)
                     = {all[k] : k \in {j \in 1..upto : all[j] \in fsYes}}

\* A scan has ended whose first check failed and in which a check behind a
\* failed one succeeded, as well as a check before a failed one.
C12_Witness ==
    \E s \in 1..Len(scans) :
        /\ scans[s].pc = "fulfilled" /\ cmd.ok
        /\ LET all == Visited(s) IN
           /\ all[1] \in fsNo
           /\ \E a, b, c \in 1..Len(all) :
                 /\ a < b /\ b < c
                 /\ all[a] \in fsYes /\ all[b] \in fsNo /\ all[c] \in fsYes
                 /\ all[a] \in Range(scans[s].installations)
                 /\ all[c] \in Range(scans[s].installations)

\* No element of the sequence stands in it twice.
NoRepeat(seq) == \A a, b \in 1..Len(seq) : a # b => seq[a] # seq[b]

\* How often the scan visits the path.
Visits(s, path) == Cardinality({k \in 1..Len(Visited(s)) : Visited(s)[k] = path})

\* C13: no executable path stands more than once in what the scan collects, in
\* the list findAll() resolves to, or in the list a caller is handed, also
\* when the default directory, registry lines (the same directory with
\* different markers) and the override lead to the same executable.
C13_NoDuplicatePath ==
    /\ \A s \in 1..Len(scans) :
          /\ NoRepeat(scans[s].installations)
          /\ NoRepeat([k \in 1..Len(scans[s].value) |-> scans[s].value[k].path])
    /\ \A c \in Callers :
          NoRepeat([k \in 1..Len(callers[c].list) |-> callers[c].list[k].path])

\* findAll() was handed a list with the one executable that the default
\* directory, two registry lines with different markers and the override all
\* led to, and with another one.
C13_Witness ==
    \E c \in Callers :
        /\ Done(c) /\ callers[c].op = "findAll" /\ callers[c].kind = "value"
        /\ Truthy(Preferred)
        /\ Visits(callers[c].p, wellKnownPaths[1].path) >= 4
        /\ InList(callers[c].list, wellKnownPaths[1].path)
        /\ Len(callers[c].list) >= 2

\* The well-known entries fs.access has been asked about.
Probed == {j \in 1..Len(wellKnownPaths) : wellKnownPaths[j].path \in fsYes \cup fsNo}

\* What the one findWhere call of a fresh finder has asked about so far: the
\* entries its predicate accepts, in declaration order, up to the one it is
\* probing or has returned, each before it with a failed check.
C14_ProbedSoFar ==
    \A c \in Callers :
        callers[c].op = "findWhere" =>
           LET acc == Accepted(callers[c].pred)
               i == callers[c].i
           IN  /\ callers[c].pc = "probe" =>
                     /\ i \in acc
                     /\ Probed = {j \in acc : j < i}
                     /\ \A j \in Probed : wellKnownPaths[j].path \in fsNo
               /\ (Done(c) /\ callers[c].via = "wellKnown") =>
                     /\ i \in acc
                     /\ Probed = {j \in acc : j <= i}
                     /\ \A j \in Probed : wellKnownPaths[j].path \in fsYes <=> j = i
               /\ (callers[c].pc = "await" /\ scans[callers[c].p].pc = "cmd") =>
                     /\ Probed = acc
                     /\ \A j \in Probed : wellKnownPaths[j].path \in fsNo

\* A step in which a check is started: it is the call's first, of the first
\* entry the predicate accepts, or the call's previous check has just
\* completed with a failure and the next accepted entry is asked about.
C14_ProbeStep ==
    \A c \in Callers :
        (callers'[c].pc = "probe" /\ callers'[c] # callers[c]) =>
           LET acc == Accepted(callers'[c].pred)
               i == callers'[c].i
           IN  /\ i \in acc
               /\ wellKnownPaths[i].path \notin fsYes' \cup fsNo'
               /\ IF callers[c].pc = "probe"
                  THEN /\ callers[c].i < i
                       /\ callers'[c].pred = callers[c].pred
                       /\ wellKnownPaths[callers[c].i].path \in fsNo'
                       /\ \A j \in acc : ~(callers[c].i < j /\ j < i)
                  ELSE \A j \in acc : i <= j

\* C14: on the fast path of findWhere the checks are made one at a time in
\* declaration order: a check starts only when the one before it has
\* completed, an entry the predicate rejects is never asked about, and no
\* entry behind the first accessible accepted entry is asked about.
C14_SequentialProbes == []C14_ProbedSoFar /\ [][C14_ProbeStep]_vars

\* A findWhere for Dev or Canary builds returned the second entry: the first
\* entry, which the predicate rejects, and the third, which stands behind the
\* accessible one, were never asked about.
C14_Witness ==
    \E c \in Callers :
        /\ Done(c) /\ callers[c].via = "wellKnown"
        /\ callers[c].pred = {"Canary", "Dev"}
        /\ callers[c].i = 2
        /\ Probed = {2}

\* The rules findAllInner hands to sort.
FirefoxRules == createPriorities(env, FirefoxPriorities).rules

\* When the scan first came to the path: the default directory first, then the
\* registry's lines in the order of the output, then the override.
FirstVisit(s, path) == Min({k \in 1..Len(scans[s].paths) : scans[s].paths[k] = path})

\* For every element of the list, the first rule, in rule order, that matches
\* its path; 0 if none does.
RECURSIVE FirstMatches(_, _)
FirstMatches(rules, list) ==
    IF list = <<>> THEN <<>>
    ELSE <<FirstMatch(rules, Head(list).path)>> \o FirstMatches(rules, Tail(list))

\* C15: the list findAll() resolves to holds the collected candidates a rule
\* matches, each with the quality of the first rule, in rule order, that
\* matches its path, in the order of that rule's weight, heaviest first;
\* candidates of equal weight stand in the order in which the scan first came
\* to them.
C15_OrderedByWeight ==
    \A s \in 1..Len(scans) :
        scans[s].pc = "fulfilled" =>
           \A rules \in {FirefoxRules} :
           \A first \in {FirstMatches(rules, scans[s].value)} :
              LET list == scans[s].value
                  inst == scans[s].installations
              IN  /\ \A k \in 1..Len(inst) :
                        ~InList(list, inst[k]) => FirstMatch(rules, inst[k]) = 0
                  /\ \A k \in 1..Len(list) :
                        /\ list[k].path \in Range(inst)
                        /\ first[k] # 0
                        /\ list[k].quality = rules[first[k]].quality
                  /\ \A a, b \in 1..Len(list) :
                        a < b =>
                           /\ rules[first[a]].weight >= rules[first[b]].weight
                           /\ rules[first[a]].weight = rules[first[b]].weight
                                 => FirstVisit(s, list[a].path) < FirstVisit(s, list[b].path)

\* The list has a candidate that the scan came to after two lighter ones of
\* equal weight and that stands before them.
C15_Witness ==
    \E s \in 1..Len(scans) :
        /\ scans[s].pc = "fulfilled"
        /\ LET list == scans[s].value IN
           \E a, b, c \in 1..Len(list) :
              /\ a < b /\ b < c
              /\ WeightOf(s, list[a].path) > WeightOf(s, list[b].path)
              /\ WeightOf(s, list[b].path) = WeightOf(s, list[c].path)
              /\ FirstVisit(s, list[c].path) < FirstVisit(s, list[a].path)

\* C16: for N variants, none of quality Custom, createPriorities returns 3 * N
\* location rules, one group per variant in the variants' order, each group
\* being the system folder's rule with weight + 100, the home folder's with
\* weight and the volumes' with weight - 100, each with its variant's quality
\* and matching its own place of the variant and not the two others; with an
\* override there is one more rule, in front of them all, of quality Custom
\* and matching the override, and without one there is no Custom rule.
C16_RuleLayout ==
    ret.f = "priorities" =>
       LET N == Len(arg.priorities)
           off == IF Truthy(Preferred) THEN 1 ELSE 0
       IN  /\ ~ret.threw
           /\ Len(ret.rules) = 3 * N + off
           /\ \A n \in 1..N :
                 LET p == arg.priorities[n]
                     places == <<SystemPlace(p), HomePlace(p), VolumePlace(p)>>
                     weights == <<p.weight + 100, p.weight, p.weight - 100>>
                 IN  \A j \in 1..3 :
                        LET rule == ret.rules[off + 3 * (n - 1) + j] IN
                        /\ rule.weight = weights[j]
                        /\ rule.quality = p.quality
                        /\ \A i \in 1..3 : RegexTest(rule.regex, places[i]) <=> i = j
           /\ off = 1 => /\ ret.rules[1].quality = "Custom"
                         /\ RegexTest(ret.rules[1].regex, The(Preferred))
           /\ \A k \in (off + 1)..Len(ret.rules) : ret.rules[k].quality # "Custom"

\* Three variants in another order than the Firefox finder's were handed over
\* with an override configured, and ten rules came back.
C16_Witness ==
    /\ ret.f = "priorities"
    /\ Truthy(Preferred)
    /\ Len(arg.priorities) = 3
    /\ arg.priorities[1].quality = "Dev"
    /\ arg.priorities[1].weight < arg.priorities[3].weight
    /\ Len(ret.rules) = 10

\* C17: the fast path does not look at the override.  With an override
\* configured, whenever a well-known entry that the predicate accepts is
\* accessible, findWhere returns the first such entry as the well-known list
\* declares it, with the declared quality and never Custom, also when the
\* entry lies under the override path and findAll() lists it as Custom.
C17_FastPathIgnoresOverride ==
    \A c \in Callers :
        (Done(c) /\ callers[c].op = "findWhere" /\ callers[c].kind = "value"
         /\ Truthy(Preferred)) =>
           LET hits == {j \in Accepted(callers[c].pred) : wellKnownPaths[j].path \in fsYes}
           IN  /\ callers[c].via = "wellKnown" <=> hits # {}
               /\ hits # {} =>
                     /\ callers[c].exe = Some(wellKnownPaths[Min(hits)])
                     /\ The(callers[c].exe).quality
                           \in {"Stable", "Dev", "Canary"} \cap callers[c].pred

\* With the same predicate, findWhere has returned a well-known entry and
\* findAll() a list whose first element is the override's executable, Custom:
\* the first element of the list that the predicate accepts is another
\* executable than the one findWhere returned.
C17_Witness ==
    \E c, d \in Callers :
        /\ Done(c) /\ callers[c].op = "findWhere" /\ callers[c].via = "wellKnown"
        /\ Done(d) /\ callers[d].op = "findAll" /\ callers[d].kind = "value"
        /\ Truthy(Preferred)
        /\ callers[d].list # <<>>
        /\ callers[d].list[1] = [path |-> The(Preferred) \o AppSuffix, quality |-> "Custom"]
        /\ Find(callers[d].list, callers[c].pred) = Some(callers[d].list[1])
        /\ The(callers[c].exe).path # callers[d].list[1].path

====
